---- MODULE Spec2Model ----
(***************************************************************************)
(* A model of the Pac-Man multi-agent reinforcement-learning glue code of   *)
(* src/pacman/agents.py: the environment-side adapter agents (proxies) that *)
(* encode a game state into a StateMessage, exchange it with a controller   *)
(* and validate the reply, and the controller-side agents that choose an    *)
(* action: the random and search agents, the eater, and the behavior-       *)
(* learning agents with the Learning Core they drive.                       *)
(***************************************************************************)
EXTENDS Integers, Sequences, FiniteSets, TLC

VARIABLES
    NOISE,      \* the module-level noise bound (agents.py line 61)
    env,        \* what the environment hands to the proxy: a game in play, or one frame
    adapter,    \* the fields of the AdapterAgent object
    client,     \* the log of the proxy's messenger: sends and receives
    msg,        \* the last message the proxy put on the wire
    ret,        \* the outcome of the last proxy call, as the environment sees it
    hist,       \* history of the episode (observation only, never read by an action)
    agent,      \* the fields of the controller agent object
    out,        \* the outcome of the last choose_action call, with its inputs
    threads,    \* controller agents stepped on threads of their own
    sim,        \* the threads of simulation.py's main program
    search      \* the breadth-first search of BFS_PacmanAgent.choose_action

vars == <<NOISE, env, adapter, client, msg, ret, hist, agent, out, threads, sim,
          search>>

proxyVars == <<NOISE, env, adapter, client, msg, ret, hist>>

agentVars == <<agent, out>>

runVars == <<threads, sim, search>>

(***************************************************************************)
(* Bounds of the model.                                                    *)
(***************************************************************************)
MaxNoise == 1      \* NOISE ranges over 0..MaxNoise

Width == 2         \* the layout has Width columns (x in 0..Width-1)

Height == 1        \* the layout has Height rows (y in 0..Height-1)

MaxScore == 2      \* state.getScore() ranges over 0..MaxScore

MaxTimer == 1      \* scaredTimer ranges over 0..MaxTimer

MaxCalls == 4      \* a proxy performs at most MaxCalls message exchanges

MaxSteps == 2      \* a controller agent performs at most MaxSteps choose_action calls

MaxIteration == 9  \* state.iteration is 0, 1 or MaxIteration

MapWidth == 3      \* the map searched by BFS_PacmanAgent has MapWidth columns

MapHeight == 1     \* the map searched by BFS_PacmanAgent has MapHeight rows

MaxWeight == 1     \* a coefficient of the weight vector ranges over 0..MaxWeight

MaxFeature == 1    \* the feature value of a state ranges over 0..MaxFeature

(***************************************************************************)
(* Directions and the module-level constants.                              *)
(***************************************************************************)
NORTH == "North"

SOUTH == "South"

EAST == "East"

WEST == "West"

STOP == "Stop"

DEFAULT_NOISE == 0

GHOST_ACTIONS == <<NORTH, SOUTH, EAST, WEST>>

PACMAN_ACTIONS == GHOST_ACTIONS \o <<STOP>>

PACMAN_INDEX == 0

Range(s) == {s[i] : i \in DOMAIN s}

Directions == Range(PACMAN_ACTIONS)

\* Python's `x in list`
In(x, list) == \E i \in DOMAIN list : list[i] = x

(***************************************************************************)
(* The game state the environment hands to a proxy.  Only what             *)
(* create_state_message and getAction read of it is kept:                  *)
(*   pacmanPosition  state.getPacmanPosition(), native (x, y)              *)
(*   ghostPositions  state.getGhostPositions(), a list of native (x, y)    *)
(*   food, walls     state.getFood(), state.getWalls(): grid[x][y]         *)
(*   scaredTimers    s.scaredTimer for s in state.data.agentStates         *)
(*   score           state.getScore()                                      *)
(*   legal           state.getLegalActions(self.agent_id)                  *)
(***************************************************************************)
XRange == 0 .. (Width - 1)

YRange == 0 .. (Height - 1)

Cells == {<<x, y>> : x \in XRange, y \in YRange}

Grids == [XRange -> [YRange -> BOOLEAN]]

\* a layout with food on the cells of odd x + y and no inner wall
BaseFood == [x \in XRange |-> [y \in YRange |-> (x + y) % 2 = 1]]

BaseWalls == [x \in XRange |-> [y \in YRange |-> FALSE]]

Scores == 0 .. MaxScore

\* the legal-action lists: none (a finished game), STOP alone, a corridor end,
\* every move but STOP (a ghost's list) and every action
LegalLists == {<<>>, <<STOP>>, <<NORTH, STOP>>, GHOST_ACTIONS, PACMAN_ACTIONS}

GameState(pac, ghosts, food, walls, timers, score, legal) ==
    [pacmanPosition |-> pac, ghostPositions |-> ghosts, food |-> food,
     walls |-> walls, scaredTimers |-> timers, score |-> score, legal |-> legal]

\* states that differ in score and legal actions: what the exchange reads
ProtocolStates ==
    {GameState(<<0, 0>>, << <<Width - 1, Height - 1>> >>, BaseFood, BaseWalls,
               [i \in 0 .. 1 |-> 0], sc, la) : sc \in Scores, la \in LegalLists}

\* states that differ in what the encoder reads: positions, grids, timers
PositionStates ==
    {GameState(p, <<g>>, BaseFood, BaseWalls, [i \in 0 .. 1 |-> 0], 0,
               PACMAN_ACTIONS) : p \in Cells, g \in Cells}

GridStates ==
    {GameState(<<0, 0>>, << <<Width - 1, Height - 1>> >>, f, w,
               [i \in 0 .. 1 |-> 0], 0, PACMAN_ACTIONS) :
         f \in Grids, w \in {BaseWalls}}
    \cup
    {GameState(<<0, 0>>, << <<Width - 1, Height - 1>> >>, f, w,
               [i \in 0 .. 1 |-> 0], 0, PACMAN_ACTIONS) :
         f \in {BaseFood}, w \in Grids}

TimerStates ==
    {GameState(<<0, 0>>, << <<Width - 1, Height - 1>> >>, BaseFood, BaseWalls,
               t, 0, PACMAN_ACTIONS) : t \in [0 .. 1 -> 0 .. MaxTimer]}

EncoderStates == PositionStates \cup GridStates \cup TimerStates

\* states with two ghosts, encoded under the default noise only
TwoGhostStates ==
    {GameState(<<0, 0>>, <<g, <<0, Height - 1>> >>, BaseFood, BaseWalls,
               t, 0, PACMAN_ACTIONS) : g \in Cells, t \in [0 .. 2 -> 0 .. MaxTimer]}

\* states at a corridor end that differ in score alone
CorridorStates ==
    {GameState(<<0, 0>>, << <<Width - 1, Height - 1>> >>, BaseFood, BaseWalls,
               [i \in 0 .. 1 |-> 0], sc, <<NORTH, STOP>>) : sc \in Scores}

\* the environment plays a game, handing over any state of ProtocolStates
Playing == [kind |-> "play"]

\* the environment plays in a corridor end, handing over any state of CorridorStates
Corridor == [kind |-> "corridor"]

\* the environment holds one state still and hands it over at every call
Frame(st) == [kind |-> "frame", state |-> st]

\* the states the proxy can be called with
States ==
    IF env.kind = "play" THEN ProtocolStates
    ELSE IF env.kind = "corridor" THEN CorridorStates
    ELSE {env.state}

(***************************************************************************)
(* The state encoder: AdapterAgent.create_state_message.                   *)
(***************************************************************************)
\* random.randrange(lo, hi): the integers n with lo <= n < hi
randrange(lo, hi) == lo .. (hi - 1)

\* a draw that leaves out the upper end: randrange(-NOISE, NOISE)
noise_error_open == randrange(-NOISE, NOISE)

\* AdapterAgent.__noise_error__: the possible draws under the bound NOISE
noise_error == randrange(-NOISE, NOISE + 1)

\* pos[::-1]
Reversed(pos) == <<pos[2], pos[1]>>

\* the draws of one call: two per ghost, in the order the loop makes them
NoiseDraws(st) == [DOMAIN st.ghostPositions -> noise_error \X noise_error]

\* an encoder that perturbs Pac-Man's own position with the first ghost's draws
agent_positions_all_noised(st, draws) ==
    [i \in {PACMAN_INDEX} \cup {id + 1 : id \in 0 .. Len(st.ghostPositions) - 1} |->
        LET pos == IF i = PACMAN_INDEX THEN st.pacmanPosition ELSE st.ghostPositions[i]
            d == IF i = PACMAN_INDEX THEN draws[1] ELSE draws[i]
        IN  <<Reversed(pos)[1] + d[1], Reversed(pos)[2] + d[2]>>]

\* lines 155-162: index 0 is Pac-Man, unnoised; ghost id_ goes to id_ + 1
agent_positions(st, draws) ==
    [i \in {PACMAN_INDEX} \cup {id + 1 : id \in 0 .. Len(st.ghostPositions) - 1} |->
        IF i = PACMAN_INDEX
        THEN Reversed(st.pacmanPosition)
        ELSE LET pos == st.ghostPositions[i]
                 pos_y == Reversed(pos)[1] + draws[i][1]
                 pos_x == Reversed(pos)[2] + draws[i][2]
             IN  <<pos_y, pos_x>>]

\* the inner loop without the swap: it appends (x, y)
RECURSIVE RowPositionsNative(_, _, _)
RowPositionsNative(row, x, y) ==
    IF y \notin DOMAIN row THEN <<>>
    ELSE (IF row[y] THEN << <<x, y>> >> ELSE <<>>) \o RowPositionsNative(row, x, y + 1)

\* the inner loop of lines 166-168 / 176-178 over one row of the grid
RECURSIVE RowPositions(_, _, _)
RowPositions(row, x, y) ==
    IF y \notin DOMAIN row THEN <<>>
    ELSE (IF row[y] THEN << <<y, x>> >> ELSE <<>>) \o RowPositions(row, x, y + 1)

\* the outer loop of lines 165 / 175 over the rows grid[x]
RECURSIVE GridPositions(_, _)
GridPositions(grid, x) ==
    IF x \notin DOMAIN grid THEN <<>>
    ELSE RowPositions(grid[x], x, 0) \o GridPositions(grid, x + 1)

food_positions(st) == GridPositions(st.food, 0)

wall_positions(st) == GridPositions(st.walls, 0)

\* a fragility test that takes a timer of 0 as scared: scaredTimer >= 0
fragile_agents_inclusive(st) ==
    [id \in DOMAIN st.scaredTimers |-> IF st.scaredTimers[id] >= 0 THEN 1 ELSE 0]

\* lines 170-172; the floats 1.0 and 0.0 are written 1 and 0
fragile_agents(st) ==
    [id \in DOMAIN st.scaredTimers |-> IF st.scaredTimers[id] > 0 THEN 1 ELSE 0]

PacmanAdapterAgent == "PacmanAdapterAgent"

GhostAdapterAgent == "GhostAdapterAgent"

\* a reward that ignores the role: the score delta for hunters too
calculate_reward_unsigned(self, current_score) ==
    current_score - self.previous_score

\* PacmanAdapterAgent.calculate_reward / GhostAdapterAgent.calculate_reward
calculate_reward(self, current_score) ==
    IF self.cls = PacmanAdapterAgent
    THEN current_score - self.previous_score
    ELSE self.previous_score - current_score

\* a message whose test_mode is always the learning default
create_state_message_learn_flag(self, st, draws) ==
    [kind |-> "StateMessage",
     agent_id |-> self.agent_id,
     agent_positions |-> agent_positions(st, draws),
     food_positions |-> food_positions(st),
     fragile_agents |-> fragile_agents(st),
     wall_positions |-> wall_positions(st),
     legal_actions |-> st.legal,
     reward |-> calculate_reward(self, st.score),
     executed_action |-> self.previous_action,
     test_mode |-> FALSE]

\* lines 180-193: the message built from the state, the draws and the fields
create_state_message(self, st, draws) ==
    [kind |-> "StateMessage",
     agent_id |-> self.agent_id,
     agent_positions |-> agent_positions(st, draws),
     food_positions |-> food_positions(st),
     fragile_agents |-> fragile_agents(st),
     wall_positions |-> wall_positions(st),
     legal_actions |-> st.legal,
     reward |-> calculate_reward(self, st.score),
     executed_action |-> self.previous_action,
     test_mode |-> self.test_mode]

RequestGameStartMessage(self) ==
    [kind |-> "RequestGameStartMessage", agent_id |-> self.agent_id,
     map_width |-> Width, map_height |-> Height]

NoMessage == [kind |-> "none"]

\* a communicate that sends and does not wait for the reply
communicate_send_only(log, m) ==
    log \o <<[ev |-> "send", kind |-> m.kind]>>

\* AdapterAgent.communicate: one send, then one receive
communicate(log, m) ==
    log \o <<[ev |-> "send", kind |-> m.kind], [ev |-> "receive", kind |-> "reply"]>>

Exchanges == Cardinality({i \in DOMAIN client : client[i].ev = "send"})

Outcome(op, raised, value) == [op |-> op, raised |-> raised, value |-> value]

\* PacmanAdapterAgent.act_when_invalid returns STOP; GhostAdapterAgent and
\* AdapterAgent define none (lines 306-307 are commented out), so the call
\* self.act_when_invalid(state) raises AttributeError
act_when_invalid(self) ==
    IF self.cls = PacmanAdapterAgent
    THEN Outcome("getAction", "none", STOP)
    ELSE Outcome("getAction", "AttributeError", "None")

(***************************************************************************)
(* The proxy: construction and the operations of AdapterAgent.             *)
(***************************************************************************)
\* a constructor that also sets previous_score to 0
NewAdapterWithScore(cls, id) ==
    [cls |-> cls, agent_id |-> id,
     previous_action |-> IF cls = GhostAdapterAgent THEN NORTH ELSE STOP,
     test_mode |-> FALSE,
     has_previous_score |-> TRUE, previous_score |-> 0,
     has_invalid_action |-> FALSE, invalid_action |-> FALSE]

\* AdapterAgent.__init__ followed by the subclass constructor
NewAdapter(cls, id) ==
    [cls |-> cls, agent_id |-> id,
     previous_action |-> IF cls = GhostAdapterAgent THEN NORTH ELSE STOP,
     test_mode |-> FALSE,
     has_previous_score |-> FALSE, previous_score |-> 0,
     has_invalid_action |-> FALSE, invalid_action |-> FALSE]

NoHistory ==
    [episodes |-> 0, nState |-> 0, prevSeen |-> 0, seen |-> 0, rewardSum |-> 0,
     dirty |-> FALSE, encoded |-> FALSE, state |-> GameState(<<0, 0>>, <<>>, <<>>, <<>>, <<>>, 0, <<>>),
     draws |-> <<>>,
     applied |-> "None",   \* what the episode's latest getAction returned
     flag |-> FALSE,       \* what the latest mode toggle asked for
     given |-> "ZMQMessengerBase"]   \* the client the constructor was given

AdapterAgent == "AdapterAgent"

\* what a caller may pass as client: a messenger, one of a subclass, or not one
Clients == {"ZMQMessengerBase", "ZMQClient", "Socket", "None"}

\* an isinstance that accepts every client
isinstance_any(given) == TRUE

\* isinstance(client, ZMQMessengerBase)
isinstance(given) == given \in {"ZMQMessengerBase", "ZMQClient"}

\* no proxy object exists yet
Unborn == [cls |-> "None"]

\* AdapterAgent.__init__ (then the subclass constructor) with any client: on
\* ValueError the object has its agent_id only and the caller gets no
\* reference to it
Construct ==
    /\ adapter = Unborn
    /\ \E cls \in {AdapterAgent, PacmanAdapterAgent, GhostAdapterAgent},
          given \in Clients :
       LET id == IF cls = PacmanAdapterAgent THEN PACMAN_INDEX ELSE PACMAN_INDEX + 1
       IN  /\ hist' = [hist EXCEPT !.given = given]
           /\ IF isinstance(given)
              THEN /\ adapter' = NewAdapter(cls, id)
                   /\ ret' = Outcome("__init__", "none", "None")
              ELSE /\ adapter' = [cls |-> cls, agent_id |-> id]
                   /\ ret' = Outcome("__init__", "ValueError", "None")
    /\ UNCHANGED <<NOISE, env, client, msg, agentVars, runVars>>

\* the caller holds a proxy: its constructor has returned
Held == adapter # Unborn /\ isinstance(hist.given)

InitProxy(noises, envs) ==
    /\ NOISE \in noises
    /\ env \in envs
    /\ \E cls \in {PacmanAdapterAgent, GhostAdapterAgent} :
          adapter = NewAdapter(cls, IF cls = PacmanAdapterAgent THEN PACMAN_INDEX
                                    ELSE PACMAN_INDEX + 1)
    /\ client = <<>>
    /\ msg = NoMessage
    /\ ret = Outcome("__init__", "none", "None")
    /\ hist = NoHistory

\* a start_game that resets the score and leaves previous_action alone
start_game_keeps_action ==
    /\ Exchanges < MaxCalls
    /\ LET self == [adapter EXCEPT !.has_previous_score = TRUE,
                                   !.previous_score = 0]
           m == RequestGameStartMessage(self)
       IN  /\ adapter' = self
           /\ msg' = m
           /\ client' = communicate(client, m)
           /\ ret' = Outcome("start_game", "none", "None")
           /\ hist' = [hist EXCEPT !.episodes = @ + 1, !.nState = 0,
                                   !.prevSeen = 0, !.seen = 0, !.rewardSum = 0,
                                   !.applied = "None",
                                   !.dirty = adapter.has_previous_score
                                             /\ (adapter.previous_score # 0
                                                 \/ adapter.previous_action # STOP)]
    /\ UNCHANGED <<NOISE, env, agentVars, runVars>>

\* AdapterAgent.start_game
start_game ==
    /\ Exchanges < MaxCalls
    /\ LET self == [adapter EXCEPT !.has_previous_score = TRUE,
                                   !.previous_score = 0,
                                   !.previous_action = STOP]
           m == RequestGameStartMessage(self)
       IN  /\ adapter' = self
           /\ msg' = m
           /\ client' = communicate(client, m)
           /\ ret' = Outcome("start_game", "none", "None")
           /\ hist' = [hist EXCEPT !.episodes = @ + 1, !.nState = 0,
                                   !.prevSeen = 0, !.seen = 0, !.rewardSum = 0,
                                   !.applied = "None",
                                   !.dirty = adapter.has_previous_score
                                             /\ (adapter.previous_score # 0
                                                 \/ adapter.previous_action # STOP)]
    /\ UNCHANGED <<NOISE, env, agentVars, runVars>>

\* the history of one more StateMessage built from st with these draws
Observed(m, st, draws) ==
    [hist EXCEPT !.nState = @ + 1, !.prevSeen = hist.seen, !.seen = st.score,
                 !.rewardSum = @ + m.reward, !.encoded = TRUE, !.state = st,
                 !.draws = draws]

\* AdapterAgent.getAction
getAction ==
    /\ Exchanges < MaxCalls
    /\ \E st \in States, reply \in Directions :
       \E draws \in NoiseDraws(st) :
          IF ~adapter.has_previous_score
          THEN \* line 180 reads self.previous_score, which no one has set
               /\ ret' = Outcome("getAction", "AttributeError", "None")
               /\ UNCHANGED <<adapter, client, msg, hist>>
          ELSE LET m == create_state_message(adapter, st, draws)
                   legal == In(reply, st.legal)
               IN  /\ msg' = m
                   /\ client' = communicate(client, m)
                   /\ adapter' = [adapter EXCEPT !.previous_score = st.score,
                                                 !.previous_action = reply,
                                                 !.has_invalid_action = TRUE,
                                                 !.invalid_action = ~legal]
                   /\ ret' = IF legal THEN Outcome("getAction", "none", reply)
                             ELSE act_when_invalid(adapter)
                   /\ hist' = [Observed(m, st, draws) EXCEPT !.applied = ret'.value]
    /\ UNCHANGED <<NOISE, env, agentVars, runVars>>

\* an update that records the reply's action as getAction does
update_applies_reply ==
    /\ Exchanges < MaxCalls
    /\ \E st \in States, reply \in Directions :
       \E draws \in NoiseDraws(st) :
          IF ~adapter.has_previous_score
          THEN /\ ret' = Outcome("update", "AttributeError", "None")
               /\ UNCHANGED <<adapter, client, msg, hist>>
          ELSE LET m == create_state_message(adapter, st, draws)
               IN  /\ msg' = m
                   /\ client' = communicate(client, m)
                   /\ adapter' = [adapter EXCEPT !.previous_score = st.score,
                                                 !.previous_action = reply]
                   /\ ret' = Outcome("update", "none", "None")
                   /\ hist' = Observed(m, st, draws)
    /\ UNCHANGED <<NOISE, env, agentVars, runVars>>

\* AdapterAgent.update: the reply of communicate is dropped unread
update ==
    /\ Exchanges < MaxCalls
    /\ \E st \in States :
       \E draws \in NoiseDraws(st) :
          IF ~adapter.has_previous_score
          THEN /\ ret' = Outcome("update", "AttributeError", "None")
               /\ UNCHANGED <<adapter, client, msg, hist>>
          ELSE LET m == create_state_message(adapter, st, draws)
               IN  /\ msg' = m
                   /\ client' = communicate(client, m)
                   /\ adapter' = [adapter EXCEPT !.previous_score = st.score]
                   /\ ret' = Outcome("update", "none", "None")
                   /\ hist' = Observed(m, st, draws)
    /\ UNCHANGED <<NOISE, env, agentVars, runVars>>

\* AdapterAgent.enable_learn_mode
enable_learn_mode ==
    /\ adapter' = [adapter EXCEPT !.test_mode = FALSE]
    /\ ret' = Outcome("enable_learn_mode", "none", "None")
    /\ hist' = [hist EXCEPT !.flag = FALSE]
    /\ UNCHANGED <<NOISE, env, client, msg, agentVars, runVars>>

\* AdapterAgent.enable_test_mode
enable_test_mode ==
    /\ adapter' = [adapter EXCEPT !.test_mode = TRUE]
    /\ ret' = Outcome("enable_test_mode", "none", "None")
    /\ hist' = [hist EXCEPT !.flag = TRUE]
    /\ UNCHANGED <<NOISE, env, client, msg, agentVars, runVars>>

(***************************************************************************)
(* The controller agents: EaterPacmanAgent, BehaviorLearningPacmanAgent    *)
(* and BehaviorLearningGhostAgent.                                         *)
(***************************************************************************)
EaterPacmanAgent == "EaterPacmanAgent"

BehaviorLearningPacmanAgent == "BehaviorLearningPacmanAgent"

BehaviorLearningGhostAgent == "BehaviorLearningGhostAgent"

LearningClasses == {BehaviorLearningPacmanAgent, BehaviorLearningGhostAgent}

\* self.behaviors (lines 624-627 and 754-756); the eater has eat_behavior
\* only, and the agents that use no behavior read none of this
behaviors(cls) ==
    IF cls = BehaviorLearningPacmanAgent THEN <<"Eat", "Flee", "Seek", "Pursue">>
    ELSE IF cls = BehaviorLearningGhostAgent THEN <<"Flee", "Seek", "Pursue">>
    ELSE <<"Eat">>

\* a rate is the fraction num / den
Rate(num, den) == [num |-> num, den |-> den]

K == 1

\* QLearning(learning_rate=0.1, ...)
InitialLearningRate == Rate(1, 10)

\* a schedule that keeps the constructor's learning rate
ConstantRate(iteration) == InitialLearningRate

\* self.K / (self.K + state.iteration)
ScheduledRate(iteration) == Rate(K, K + iteration)

\* self.exploration_rate = 0.1
ConfiguredExploration == Rate(1, 10)

\* state.iteration of the states handed to a learning agent
Iterations == {0, 1, MaxIteration}

\* the value of the (one) feature of a state
FeatureValues == 0 .. MaxFeature

\* the weight vector: one coefficient per behavior, for the one feature
Weights(cls) == [Range(behaviors(cls)) -> 0 .. MaxWeight]

\* a constructor whose previous_behavior is the last configured behavior
NewAgentLastBehavior(cls) ==
    [cls |-> cls,
     test_mode |-> FALSE,
     learning_rate |-> InitialLearningRate,
     exploration_rate |-> ConfiguredExploration,
     weights |-> [b \in Range(behaviors(cls)) |-> 0],
     previous_behavior |-> behaviors(cls)[Len(behaviors(cls))],
     behavior_count |-> [b \in Range(behaviors(cls)) |-> 0],
     steps |-> 0]

\* the constructors (lines 550-559, 602-641, 733-769)
NewAgent(cls) ==
    [cls |-> cls,
     test_mode |-> FALSE,
     learning_rate |-> InitialLearningRate,
     exploration_rate |-> ConfiguredExploration,
     weights |-> [b \in Range(behaviors(cls)) |-> 0],
     previous_behavior |-> behaviors(cls)[1],
     behavior_count |-> [b \in Range(behaviors(cls)) |-> 0],
     steps |-> 0]

NoOutcome ==
    [op |-> "__init__", legal |-> <<>>, suggested |-> STOP, test |-> FALSE,
     before |-> FALSE, iteration |-> 0, feature |-> 0,
     calls |-> <<>>, value |-> "None"]

\* no agent runs on a thread of its own
NoThreads == <<>>

\* simulation.py is not running
NoSim == [pc |-> "none"]

\* no BFS_PacmanAgent call is under way
NoSearch == [pc |-> "none"]

InitAgent(classes) ==
    /\ \E cls \in classes : agent = NewAgent(cls)
    /\ out = NoOutcome
    /\ threads = NoThreads
    /\ sim = NoSim
    /\ search = NoSearch

\* a mode switch that never leaves test mode once it was entered
SetModeSticky(self, test) ==
    [self EXCEPT !.test_mode = self.test_mode \/ test,
                 !.exploration_rate = IF self.test_mode \/ test THEN Rate(0, 1)
                                      ELSE ConfiguredExploration]

\* a mode switch whose learn mode leaves the exploration rate as it finds it
SetModeNoRestore(self, test) ==
    [self EXCEPT !.test_mode = test,
                 !.exploration_rate = IF test THEN Rate(0, 1) ELSE @]

\* enable_test_mode / enable_learn_mode of the learning agents
SetMode(self, test) ==
    [self EXCEPT !.test_mode = test,
                 !.exploration_rate = IF test THEN Rate(0, 1)
                                      ELSE ConfiguredExploration]

\* a fallback that answers STOP whenever the suggestion is illegal
FallbackStopOnly(suggested_action, legal_actions) ==
    IF In(suggested_action, legal_actions) THEN {suggested_action} ELSE {STOP}

\* lines 579-584, 697-702, 825-830: what the three-tier fallback can return
Fallback(suggested_action, legal_actions) ==
    IF In(suggested_action, legal_actions) THEN {suggested_action}
    ELSE IF legal_actions = <<>> THEN {STOP}
    ELSE Range(legal_actions)

\* EaterPacmanAgent.choose_action
EaterChoose ==
    /\ agent.cls = EaterPacmanAgent
    /\ agent.steps < MaxSteps
    /\ \E legal_actions \in LegalLists, suggested_action \in Directions,
          test \in BOOLEAN :
       \E a \in Fallback(suggested_action, legal_actions) :
          /\ agent' = [agent EXCEPT !.steps = @ + 1]
          /\ out' = [op |-> "choose_action", legal |-> legal_actions,
                     suggested |-> suggested_action, test |-> test,
                     before |-> agent.test_mode, iteration |-> 0, feature |-> 0,
                     calls |-> <<>>, value |-> a]
    /\ UNCHANGED <<proxyVars, runVars>>

\* one call of the Learning Core, as the agent makes it
Call(fn, self, behavior) ==
    [fn |-> fn, behavior |-> behavior, test_mode |-> self.test_mode,
     learning_rate |-> self.learning_rate,
     exploration_rate |-> self.exploration_rate, weights |-> self.weights]

\* a guard that lets the agent learn in either mode
LearnsAlways(self) == TRUE

\* `if not self.test_mode:` (lines 687 and 815)
Learns(self) == ~self.test_mode

(***************************************************************************)
(* The Learning Core (module learning, class QLearning), as the agents     *)
(* use it: learn, act, get_weights, set_weights.                           *)
(***************************************************************************)
\* Q(s, a), the weight of a times the feature of s
Q(weights, a, feature) == weights[a] * feature

\* the behavior of greatest Q, the first of them in the order of the list
Greedy(cls, weights, feature) ==
    LET list == behaviors(cls)
        best == CHOOSE i \in DOMAIN list :
                   /\ \A k \in DOMAIN list :
                         Q(weights, list[k], feature) <= Q(weights, list[i], feature)
                   /\ \A k \in 1 .. (i - 1) :
                         Q(weights, list[k], feature) < Q(weights, list[i], feature)
    IN  list[best]

\* act(state): the greedy behavior, or with probability exploration_rate any
act(self, feature) ==
    IF self.exploration_rate.num = 0
    THEN {Greedy(self.cls, self.weights, feature)}
    ELSE Range(behaviors(self.cls))

\* learn(state, previous_behavior, reward): the update moves the coefficient
\* of previous_behavior, here to any value
learn(self, previous_behavior, learned) ==
    [self EXCEPT !.weights[previous_behavior] = learned]

get_weights(self) == self.weights

set_weights(self, weights) == [self EXCEPT !.weights = weights]

\* BehaviorLearningPacmanAgent.choose_action / BehaviorLearningGhostAgent.choose_action
\* (the legal actions, the behavior's suggestion, the state's iteration and
\* feature value and the coefficient that learn leaves behind are drawn from
\* the given sets)
LearningChoose(legals, suggestions, iterations, features, learnt) ==
    /\ agent.cls \in LearningClasses
    /\ agent.steps < MaxSteps
    /\ \E legal_actions \in legals, suggested_action \in suggestions,
          test \in BOOLEAN, iteration \in iterations, feature \in features,
          learned \in learnt :
       LET moded == SetMode(agent, test)
           rated == [moded EXCEPT !.learning_rate = ScheduledRate(iteration)]
           \* self.learning.learn(state, self.previous_behavior, reward)
           after == IF Learns(moded)
                    THEN learn(rated, agent.previous_behavior, learned)
                    ELSE moded
       IN  \E behavior \in act(after, feature) :
           \E a \in Fallback(suggested_action, legal_actions) :
              /\ agent' = [after EXCEPT !.previous_behavior = behavior,
                                        !.behavior_count[behavior] = @ + 1,
                                        !.steps = @ + 1]
              /\ out' = [op |-> "choose_action", legal |-> legal_actions,
                         suggested |-> suggested_action, test |-> test,
                         before |-> agent.test_mode, iteration |-> iteration,
                         feature |-> feature,
                         calls |-> (IF Learns(moded)
                                    THEN <<Call("learn", rated, agent.previous_behavior)>>
                                    ELSE <<>>)
                                   \o <<Call("act", after, behavior)>>,
                         value |-> a]
    /\ UNCHANGED <<proxyVars, runVars>>

\* the outcome of a policy call: the Learning Core call it made, with its
\* argument, and what it returned
PolicyOutcome(op, fn, arg, value) ==
    [NoOutcome EXCEPT !.op = op, !.before = agent.test_mode,
                      !.calls = <<[fn |-> fn, arg |-> arg]>>, !.value = value]

\* get_policy (lines 648-654 and 776-782)
get_policy ==
    /\ agent.cls \in LearningClasses
    /\ out' = PolicyOutcome("get_policy", "get_weights", "None", get_weights(agent))
    /\ UNCHANGED <<agent, proxyVars, runVars>>

\* the weight vectors handed to set_policy: the one get_policy has just
\* returned, one that gives every behavior the same coefficient, or one
\* that favours a single behavior
Policies ==
    (IF out.op = "get_policy" THEN {out.value} ELSE {})
    \cup {[b \in Range(behaviors(agent.cls)) |-> v] : v \in 0 .. MaxWeight}
    \cup {[b \in Range(behaviors(agent.cls)) |-> IF b = c THEN MaxWeight ELSE 0] :
             c \in Range(behaviors(agent.cls))}

\* a set_policy that hands over the coefficient of the first behavior alone
set_policy_first ==
    /\ agent.cls \in LearningClasses
    /\ \E weights \in Policies :
          LET first == behaviors(agent.cls)[1]
          IN  /\ agent' = set_weights(agent, [agent.weights EXCEPT ![first] = weights[first]])
              /\ out' = PolicyOutcome("set_policy", "set_weights", weights, "None")
    /\ UNCHANGED <<proxyVars, runVars>>

\* set_policy (lines 656-664 and 784-792)
set_policy ==
    /\ agent.cls \in LearningClasses
    /\ \E weights \in Policies :
          /\ agent' = set_weights(agent, weights)
          /\ out' = PolicyOutcome("set_policy", "set_weights", weights, "None")
    /\ UNCHANGED <<proxyVars, runVars>>

(***************************************************************************)
(* Behavior-learning agents stepped concurrently, one thread per agent.    *)
(* A thread runs choose_action line by line, so the calls of distinct      *)
(* agents overlap; `serial` is what the same inputs give when each call    *)
(* runs alone.  A random draw of act is an input of the call.              *)
(***************************************************************************)
ThreadIds == {1, 2}

\* the inputs of one concurrent call: the test flag, the state's iteration
\* and feature, the coefficient learn leaves, the behavior an exploring act
\* draws
ThreadInputs ==
    [test : BOOLEAN, iteration : {1}, feature : {MaxFeature},
     learned : {MaxWeight},
     drawn : Range(behaviors(BehaviorLearningGhostAgent))]

\* self.learning.act(state), its draw given
Acted(self, args) ==
    IF self.exploration_rate.num = 0
    THEN Greedy(self.cls, self.weights, args.feature)
    ELSE args.drawn

\* choose_action run alone (lines 810-823), up to the bookkeeping
Serial(self, args) ==
    LET moded == SetMode(self, args.test)
        after == IF Learns(moded)
                 THEN learn([moded EXCEPT !.learning_rate = ScheduledRate(args.iteration)],
                            self.previous_behavior, args.learned)
                 ELSE moded
        behavior == Acted(after, args)
    IN  [after EXCEPT !.previous_behavior = behavior,
                      !.behavior_count[behavior] = @ + 1,
                      !.steps = @ + 1]

NewThread ==
    [self |-> NewAgent(BehaviorLearningGhostAgent),
     serial |-> NewAgent(BehaviorLearningGhostAgent),
     pc |-> "idle",
     args |-> [test |-> FALSE, iteration |-> 0, feature |-> 0, learned |-> 0,
               drawn |-> "Flee"],
     behavior |-> "Flee"]

\* a previous_behavior kept on the class, one for all the agents
RememberOnClass(store, i, behavior) ==
    [j \in DOMAIN store |-> [store[j] EXCEPT !.self.previous_behavior = behavior]]

\* self.previous_behavior = behavior (line 820): an attribute of the instance
Remember(store, i, behavior) ==
    [store EXCEPT ![i].self.previous_behavior = behavior]

\* the call of choose_action on thread i
Enter(i) ==
    /\ threads[i].pc = "idle"
    /\ threads[i].self.steps < MaxSteps
    /\ \E args \in ThreadInputs :
          threads' = [threads EXCEPT ![i].pc = "mode", ![i].args = args,
                                     ![i].serial = Serial(@, args)]

\* lines 810-813: enable_test_mode or enable_learn_mode
ModeStep(i) ==
    /\ threads[i].pc = "mode"
    /\ threads' = [threads EXCEPT ![i].self = SetMode(@, threads[i].args.test),
                                  ![i].pc = "learn"]

\* lines 815-818: the learning rate and learn, unless in test mode
LearnStep(i) ==
    /\ threads[i].pc = "learn"
    /\ LET self == threads[i].self
           args == threads[i].args
       IN  threads' = [threads EXCEPT
                ![i].self = IF Learns(self)
                            THEN learn([self EXCEPT !.learning_rate =
                                                       ScheduledRate(args.iteration)],
                                       self.previous_behavior, args.learned)
                            ELSE self,
                ![i].pc = "act"]

\* lines 819-820: act, and the behavior remembered
ActStep(i) ==
    /\ threads[i].pc = "act"
    /\ LET behavior == Acted(threads[i].self, threads[i].args)
       IN  threads' = [Remember(threads, i, behavior) EXCEPT
                          ![i].behavior = behavior, ![i].pc = "count"]

\* line 823 and the return: the behavior counted
CountStep(i) ==
    /\ threads[i].pc = "count"
    /\ threads' = [threads EXCEPT
            ![i].self.behavior_count[threads[i].behavior] = @ + 1,
            ![i].self.steps = @ + 1,
            ![i].pc = "idle"]

ThreadStep ==
    /\ \E i \in ThreadIds :
          Enter(i) \/ ModeStep(i) \/ LearnStep(i) \/ ActStep(i) \/ CountStep(i)
    /\ UNCHANGED <<proxyVars, agentVars, sim, search>>

(***************************************************************************)
(* The controller agents that do not learn: RandomPacmanAgent,             *)
(* RandomGhostAgent, RandomPacmanAgentTwo and BFS_PacmanAgent.  A Python   *)
(* function that ends without a return statement returns None.             *)
(***************************************************************************)
RandomPacmanAgent == "RandomPacmanAgent"

RandomGhostAgent == "RandomGhostAgent"

RandomPacmanAgentTwo == "RandomPacmanAgentTwo"

BFS_PacmanAgent == "BFS_PacmanAgent"

RandomClasses == {RandomPacmanAgent, RandomGhostAgent}

None == "None"

\* the outcome of a choose_action that consults no Learning Core
Chosen(action, legal_actions, test, value) ==
    [NoOutcome EXCEPT !.op = "choose_action", !.legal = legal_actions,
                      !.suggested = action, !.test = test,
                      !.before = agent.test_mode, !.value = value]

\* random.choice(list)
choice(list) == Range(list)

\* list.remove(x): the list without the first occurrence of x
Remove(list, x) ==
    LET i == CHOOSE k \in DOMAIN list :
                 list[k] = x /\ \A j \in 1 .. (k - 1) : list[j] # x
    IN  SubSeq(list, 1, i - 1) \o SubSeq(list, i + 1, Len(list))

\* RandomPacmanAgent.choose_action / RandomGhostAgent.choose_action: what
\* the call can return
RandomAction(legal_actions) ==
    IF Len(legal_actions) > 0 THEN choice(legal_actions) ELSE {None}

RandomChoose ==
    /\ agent.cls \in RandomClasses
    /\ agent.steps < MaxSteps
    /\ \E action \in Directions, legal_actions \in LegalLists, test \in BOOLEAN :
       \E a \in RandomAction(legal_actions) :
          /\ agent' = [agent EXCEPT !.steps = @ + 1]
          /\ out' = Chosen(action, legal_actions, test, a)
    /\ UNCHANGED <<proxyVars, runVars>>

\* lines 461-468: what the draw `number` selects among the legal actions
\* without the last action
Turn(number, rest) ==
    IF number - 2 \in DOMAIN rest THEN {rest[number - 2]} ELSE choice(rest)

\* a draw of 1..5 whatever the number of legal actions
DrawsOfFive(legal_actions) == 1 .. 5

\* lines 452-455: the values `number` is drawn from
Draws(legal_actions) == IF Len(legal_actions) = 4 THEN 1 .. 5 ELSE 1 .. 6

\* lines 456-468: what the call can return once `number` is drawn
Drawn(action, legal_actions, number) ==
    IF number = 1 \/ number = 2 THEN {action}
    ELSE Turn(number, Remove(legal_actions, action))

\* RandomPacmanAgentTwo.choose_action: what the call can return
RandomTwoAction(action, legal_actions) ==
    IF action = STOP \/ ~In(action, legal_actions)
    THEN LET moves == IF In(STOP, legal_actions) THEN Remove(legal_actions, STOP)
                      ELSE legal_actions
         IN  IF Len(moves) > 0 THEN choice(moves) ELSE {None}
    ELSE IF Len(legal_actions) > 3
         THEN UNION {Drawn(action, legal_actions, number) :
                        number \in Draws(legal_actions)}
         ELSE {action}

RandomTwoChoose ==
    /\ agent.cls = RandomPacmanAgentTwo
    /\ agent.steps < MaxSteps
    /\ \E action \in Directions, legal_actions \in LegalLists, test \in BOOLEAN :
       \E a \in RandomTwoAction(action, legal_actions) :
          /\ agent' = [agent EXCEPT !.steps = @ + 1]
          /\ out' = Chosen(action, legal_actions, test, a)
    /\ UNCHANGED <<proxyVars, runVars>>

\* no food cell found: closest_food is None
NoFood == <<>>

\* `new_dist < min_dist` while min_dist is None: Python 2 (the module imports
\* Queue) orders None below every number, so the test is false
LessThanNone(new_dist) == FALSE

\* lines 508-519 of BFS_PacmanAgent.choose_action: the result, given the
\* food cell the search of lines 478-507 has found.  The loop over the legal
\* actions computes the same new_dist for each and takes an action only when
\* new_dist < min_dist, which could only be at its first test, against None
BFSAction(closest_food, legal_actions) ==
    IF closest_food = NoFood THEN STOP
    ELSE IF Len(legal_actions) > 0
         THEN IF \E i \in DOMAIN legal_actions : LessThanNone(0)
              THEN legal_actions[1] ELSE None
         ELSE STOP

\* BFS_PacmanAgent.choose_action, with the outcome of its search drawn from
\* no food and the cells of the layout
BFSChoose ==
    /\ agent.cls = BFS_PacmanAgent
    /\ agent.steps < MaxSteps
    /\ \E action \in Directions, legal_actions \in LegalLists, test \in BOOLEAN,
          closest_food \in {NoFood} \cup Cells :
          /\ agent' = [agent EXCEPT !.steps = @ + 1]
          /\ out' = Chosen(action, legal_actions, test,
                           BFSAction(closest_food, legal_actions))
    /\ UNCHANGED <<proxyVars, runVars>>

\* the positions of the map
MapCells == {<<a, b>> : a \in 0 .. (MapWidth - 1), b \in 0 .. (MapHeight - 1)}

\* the positions the search can read: the map and the ring around it
ReadCells == {<<a, b>> : a \in -1 .. MapWidth, b \in -1 .. MapHeight}

\* agent_map._is_valid_position: a position of the map that is not a wall
is_valid_position(walls, position) ==
    position \in MapCells /\ position \notin walls

\* a test that takes every position for a new one
UnvisitedAlways(new_position, visited) == TRUE

\* line 499: new_position not in visited
Unvisited(new_position, visited) == ~In(new_position, visited)

\* lines 494-497: the positions around Current_Position, itself included,
\* in the order of the two loops
Around(Current_Position) ==
    [k \in 1 .. 9 |-> <<Current_Position[1] + ((k - 1) \div 3) - 1,
                         Current_Position[2] + ((k - 1) % 3) - 1>>]

\* lines 498-501 over the positions of `around`: the valid positions not
\* yet visited, in the order they are enqueued and marked visited.  The nine
\* positions differ from one another, so none is turned away by an append
\* made for an earlier one
Enqueued(walls, visited, around) ==
    SelectSeq(around, LAMBDA new_position :
                         /\ is_valid_position(walls, new_position)
                         /\ Unvisited(new_position, visited))

\* lines 502-504 over the positions of `around`: closest_food is set once, to
\* the first position whose food_map entry is 1, valid or not
Found(food, closest_food, around) ==
    LET hits == SelectSeq(around, LAMBDA new_position : new_position \in food)
    IN  IF closest_food # NoFood \/ hits = <<>> THEN closest_food ELSE hits[1]

\* the inputs of a BFS_PacmanAgent call: the walls of the map, the agent's
\* position, the positions whose food_map entry reads 1 (none or one, on the
\* map or beside it) and the legal actions
Searches ==
    [walls : SUBSET MapCells, start : MapCells,
     food : {{}} \cup {{p} : p \in ReadCells},
     legal : {<<>>, PACMAN_ACTIONS}]

\* the search enqueues no more positions than this
MaxVisited == Cardinality(MapCells) + 1

\* lines 478-491: the queue and the visited list hold Initial_Position
BFSStart ==
    /\ agent.cls = BFS_PacmanAgent
    /\ search = NoSearch
    /\ \E given \in Searches :
          search' = [pc |-> "loop", walls |-> given.walls, start |-> given.start,
                     food |-> given.food, legal |-> given.legal,
                     q |-> <<given.start>>, visited |-> <<given.start>>,
                     closest_food |-> NoFood]
    /\ UNCHANGED <<proxyVars, agentVars, threads, sim>>

\* lines 492-504: one iteration of `while (not q.empty())`
BFSLoop ==
    /\ search.pc = "loop"
    /\ search.q # <<>>
    /\ Len(search.visited) <= MaxVisited
    /\ LET around == Around(Head(search.q))
           put == Enqueued(search.walls, search.visited, around)
       IN  search' = [search EXCEPT
                        !.q = Tail(@) \o put,
                        !.visited = @ \o put,
                        !.closest_food = Found(search.food, @, around)]
    /\ UNCHANGED <<proxyVars, agentVars, threads, sim>>

\* lines 505-519: the queue is empty and the call returns
BFSReturn ==
    /\ search.pc = "loop"
    /\ search.q = <<>>
    /\ search' = [search EXCEPT !.pc = "done"]
    /\ agent' = [agent EXCEPT !.steps = @ + 1]
    /\ out' = Chosen(STOP, search.legal, FALSE,
                     BFSAction(search.closest_food, search.legal))
    /\ UNCHANGED <<proxyVars, threads, sim>>

(***************************************************************************)
(* simulation.py: the main program and its two threads.                    *)
(***************************************************************************)
\* a controller thread the interpreter waits for at exit
controller_thread_joined == FALSE

\* line 44: controller_thread.daemon = True
controller_thread_daemon == TRUE

\* the agents whose proxies adapter.run drives: the hunted one and a hunter
SimAgents == {PACMAN_INDEX, PACMAN_INDEX + 1}

\* the exchanges adapter.run has completed, over all its proxies
Exchanged(exchanges) == exchanges[PACMAN_INDEX] + exchanges[PACMAN_INDEX + 1]

\* the main program at line 33; `channel` is the request/reply socket pair
\* between adapter.run and controller.run, `agent_id` the proxy whose
\* message is on it, `exchanges` the replies each proxy has received
NewSim ==
    [pc |-> "main", controller |-> "none", daemon |-> FALSE, adapter |-> "none",
     channel |-> "idle", agent_id |-> PACMAN_INDEX,
     exchanges |-> [id \in SimAgents |-> 0], process |-> "running"]

\* lines 40-42: the controller is built
get_Controller ==
    /\ sim.pc = "main"
    /\ sim' = [sim EXCEPT !.pc = "controller", !.controller = "built"]
    /\ UNCHANGED <<proxyVars, agentVars, threads, search>>

\* lines 43-45: its thread is created, marked daemon and started
controller_thread_start ==
    /\ sim.pc = "controller"
    /\ sim' = [sim EXCEPT !.pc = "controller_started",
                          !.daemon = controller_thread_daemon,
                          !.controller = "running"]
    /\ UNCHANGED <<proxyVars, agentVars, threads, search>>

\* lines 47-48: the adapter is built
get_Adapter ==
    /\ sim.pc = "controller_started"
    /\ sim' = [sim EXCEPT !.pc = "adapter", !.adapter = "built"]
    /\ UNCHANGED <<proxyVars, agentVars, threads, search>>

\* lines 49-50: its thread is created and started
adapter_thread_start ==
    /\ sim.pc = "adapter"
    /\ sim' = [sim EXCEPT !.pc = "join", !.adapter = "running"]
    /\ UNCHANGED <<proxyVars, agentVars, threads, search>>

\* line 51: join returns once adapter.run has ended
adapter_thread_join ==
    /\ sim.pc = "join"
    /\ sim.adapter = "ended"
    /\ sim' = [sim EXCEPT !.pc = "end"]
    /\ UNCHANGED <<proxyVars, agentVars, threads, search>>

\* the end of the main program: the interpreter waits for the threads that
\* are not daemons, then exits, and a daemon thread still running ends with it
exit ==
    /\ sim.pc = "end"
    /\ sim.process = "running"
    /\ sim.adapter # "running"
    /\ sim.daemon \/ sim.controller # "running"
    /\ sim' = [sim EXCEPT !.process = "exited",
                          !.controller = IF @ = "running" THEN "killed" ELSE @]
    /\ UNCHANGED <<proxyVars, agentVars, threads, search>>

\* adapter.run: a proxy sends a state message and blocks for the reply
adapter_request ==
    /\ sim.process = "running"
    /\ sim.adapter = "running"
    /\ sim.channel = "idle"
    /\ Exchanged(sim.exchanges) < MaxCalls
    /\ \E id \in SimAgents :
          sim' = [sim EXCEPT !.channel = "request", !.agent_id = id]
    /\ UNCHANGED <<proxyVars, agentVars, threads, search>>

\* controller.run: the loop receives a request and replies to it
controller_reply ==
    /\ sim.process = "running"
    /\ sim.controller = "running"
    /\ sim.channel = "request"
    /\ sim' = [sim EXCEPT !.channel = "reply"]
    /\ UNCHANGED <<proxyVars, agentVars, threads, search>>

\* adapter.run: the proxy receives the reply
adapter_receive ==
    /\ sim.process = "running"
    /\ sim.adapter = "running"
    /\ sim.channel = "reply"
    /\ sim' = [sim EXCEPT !.channel = "idle",
                          !.exchanges[sim.agent_id] = @ + 1]
    /\ UNCHANGED <<proxyVars, agentVars, threads, search>>

\* adapter.run returns or raises between two exchanges: its games are over
adapter_run_ends ==
    /\ sim.process = "running"
    /\ sim.adapter = "running"
    /\ sim.channel = "idle"
    /\ sim' = [sim EXCEPT !.adapter = "ended"]
    /\ UNCHANGED <<proxyVars, agentVars, threads, search>>

\* controller.run returns or raises while it waits for a request
controller_run_ends ==
    /\ sim.process = "running"
    /\ sim.controller = "running"
    /\ sim.channel # "reply"
    /\ sim' = [sim EXCEPT !.controller = "ended"]
    /\ UNCHANGED <<proxyVars, agentVars, threads, search>>

\* the steps of the main thread
MainStep ==
    \/ get_Controller
    \/ controller_thread_start
    \/ get_Adapter
    \/ adapter_thread_start
    \/ adapter_thread_join
    \/ exit

(***************************************************************************)
(* The specifications.                                                     *)
(***************************************************************************)
\* the proxy's exchange with its controller, under the default noise
Init ==
    /\ InitProxy({DEFAULT_NOISE}, {Playing})
    /\ InitAgent({EaterPacmanAgent})

Next ==
    \/ start_game
    \/ getAction
    \/ update

Spec == Init /\ [][Next]_vars

\* the encoder, applied to one game state under one noise bound
InitEncoder ==
    /\ \/ InitProxy(0 .. MaxNoise, {Frame(st) : st \in EncoderStates})
       \/ InitProxy({DEFAULT_NOISE}, {Frame(st) : st \in TwoGhostStates})
    /\ InitAgent({EaterPacmanAgent})

NextEncoder ==
    \/ start_game
    \/ update

SpecEncoder == InitEncoder /\ [][NextEncoder]_vars

\* construction with any client, then the calls a caller can make on the
\* proxy it holds (getAction and update on the two concrete roles)
InitConstruct ==
    /\ NOISE = DEFAULT_NOISE
    /\ env = Corridor
    /\ adapter = Unborn
    /\ client = <<>>
    /\ msg = NoMessage
    /\ ret = Outcome("new", "none", "None")
    /\ hist = [NoHistory EXCEPT !.given = "None"]
    /\ InitAgent({EaterPacmanAgent})

NextConstruct ==
    \/ Construct
    \/ Held /\ start_game
    \/ Held /\ adapter.cls # AdapterAgent /\ getAction
    \/ Held /\ adapter.cls # AdapterAgent /\ update

SpecConstruct == InitConstruct /\ [][NextConstruct]_vars

\* the proxy's exchange in a corridor end, with the mode toggled at any time
InitMode ==
    /\ InitProxy({DEFAULT_NOISE}, {Corridor})
    /\ InitAgent({EaterPacmanAgent})

NextMode ==
    \/ start_game
    \/ getAction
    \/ update
    \/ enable_learn_mode
    \/ enable_test_mode

SpecMode == InitMode /\ [][NextMode]_vars

\* the controller agents' dispatch of a behavior's suggestion, over every
\* legal-action list, at iteration 0 and with a learn that leaves weights 0
InitController ==
    /\ InitProxy({DEFAULT_NOISE}, {Playing})
    /\ adapter.cls = PacmanAdapterAgent
    /\ InitAgent({EaterPacmanAgent} \cup LearningClasses)

NextController ==
    \/ EaterChoose
    \/ LearningChoose(LegalLists, Directions, {0}, {0}, {0})

SpecController == InitController /\ [][NextController]_vars

\* every concrete controller agent, over every legal-action list
InitAgents ==
    /\ InitProxy({DEFAULT_NOISE}, {Playing})
    /\ adapter.cls = PacmanAdapterAgent
    /\ InitAgent(RandomClasses \cup {RandomPacmanAgentTwo, BFS_PacmanAgent,
                                     EaterPacmanAgent} \cup LearningClasses)

NextAgents ==
    \/ RandomChoose
    \/ RandomTwoChoose
    \/ BFSChoose
    \/ EaterChoose
    \/ LearningChoose(LegalLists, Directions, {0}, {0}, {0})

SpecAgents == InitAgents /\ [][NextAgents]_vars

\* one call of BFS_PacmanAgent.choose_action, on every map of the bounds
InitSearch ==
    /\ InitProxy({DEFAULT_NOISE}, {Playing})
    /\ adapter.cls = PacmanAdapterAgent
    /\ agent = NewAgent(BFS_PacmanAgent)
    /\ out = NoOutcome
    /\ threads = NoThreads
    /\ sim = NoSim
    /\ search = NoSearch

NextSearch == BFSStart \/ BFSLoop \/ BFSReturn

\* a call that has started runs on: it is on one thread and waits for nothing
SpecSearch == InitSearch /\ [][NextSearch]_vars /\ WF_vars(BFSLoop \/ BFSReturn)

\* simulation.py run as the main program
InitSimulation ==
    /\ InitProxy({DEFAULT_NOISE}, {Playing})
    /\ adapter.cls = PacmanAdapterAgent
    /\ agent = NewAgent(EaterPacmanAgent)
    /\ out = NoOutcome
    /\ threads = NoThreads
    /\ sim = NewSim
    /\ search = NoSearch

NextSimulation ==
    \/ MainStep
    \/ adapter_request
    \/ controller_reply
    \/ adapter_receive
    \/ adapter_run_ends
    \/ controller_run_ends

\* the main thread is scheduled whenever it can take a step; neither run
\* loop is bound to return
SpecSimulation ==
    InitSimulation /\ [][NextSimulation]_vars /\ WF_vars(MainStep)

\* two hunter agents of the behavior-learning class, each on its own thread
InitThreads ==
    /\ InitProxy({DEFAULT_NOISE}, {Playing})
    /\ adapter.cls = PacmanAdapterAgent
    /\ agent = NewAgent(EaterPacmanAgent)
    /\ out = NoOutcome
    /\ threads = [i \in ThreadIds |-> NewThread]
    /\ sim = NoSim
    /\ search = NoSearch

NextThreads == ThreadStep

SpecThreads == InitThreads /\ [][NextThreads]_vars

\* the behavior-learning agents at a corridor end, over learning and test
\* steps in any order, with the policy exported and imported at any time
InitLearning ==
    /\ InitProxy({DEFAULT_NOISE}, {Playing})
    /\ adapter.cls = PacmanAdapterAgent
    /\ InitAgent(LearningClasses)

NextLearning ==
    \/ LearningChoose({<<NORTH, STOP>>}, {STOP}, Iterations, FeatureValues,
                      0 .. MaxWeight)
    \/ get_policy
    \/ set_policy

SpecLearning == InitLearning /\ [][NextLearning]_vars

(***************************************************************************)
(* The properties.                                                         *)
(***************************************************************************)
Abs(n) == IF n < 0 THEN -n ELSE n

\* the last proxy call was a getAction that exchanged a message
ActedOnReply == ret.op = "getAction" /\ adapter.has_previous_score

\* the last message on the wire is the StateMessage of the state hist.state
Encoded == msg.kind = "StateMessage" /\ hist.encoded

\* C1: choose_action of the eater and of the two behavior-learning agents
\* returns the suggestion when it is legal, STOP when there is no legal
\* action, and otherwise an element of the legal actions.
C1_ControllerFallback ==
    out.op = "choose_action" =>
        /\ In(out.suggested, out.legal) => out.value = out.suggested
        /\ out.legal = <<>> => out.value = STOP
        /\ (~In(out.suggested, out.legal) /\ out.legal # <<>>) =>
               In(out.value, out.legal)

C1_Witness ==
    /\ out.op = "choose_action"
    /\ agent.cls = BehaviorLearningGhostAgent
    /\ out.legal = <<NORTH, STOP>>
    /\ out.suggested = EAST
    /\ out.value = NORTH

\* C2: for a proxy of either role, getAction returns STOP when the reply's
\* action is not legal in the state and returns the reply's action when it is,
\* and never fails.
C2_ProxySubstitution ==
    ActedOnReply =>
        /\ ret.raised = "none"
        /\ ret.value = IF In(adapter.previous_action, hist.state.legal)
                       THEN adapter.previous_action
                       ELSE STOP

\* C3: the Direction getAction hands back to the environment is never absent
\* from the state's legal actions.
C3_NeverIllegal ==
    (ActedOnReply /\ ret.raised = "none") => In(ret.value, hist.state.legal)

\* C4: the reward of each StateMessage is the score seen now minus the score
\* seen by the previous StateMessage of the episode (0 after start_game) for
\* the hunted role and the negation for a hunter; the rewards of the episode
\* sum to the last seen score, negated for a hunter.
C4_RewardIsScoreDelta ==
    Encoded =>
        IF adapter.cls = PacmanAdapterAgent
        THEN /\ msg.reward = hist.seen - hist.prevSeen
             /\ hist.rewardSum = hist.seen
        ELSE /\ msg.reward = hist.prevSeen - hist.seen
             /\ hist.rewardSum = -hist.seen

C4_Witness ==
    /\ Encoded
    /\ adapter.cls = GhostAdapterAgent
    /\ hist.nState >= 2
    /\ hist.prevSeen > 0
    /\ msg.reward < 0

\* C5: under the noise bound B = NOISE every draw of __noise_error__ lies in
\* [-B, B], every integer of [-B, B] is a possible draw, with B = 0 the only
\* draw is 0, and every noised coordinate of a message lies within B of the
\* true one.
C5_NoiseBound ==
    /\ \A d \in noise_error : -NOISE <= d /\ d <= NOISE
    /\ \A d \in (-NOISE) .. NOISE : d \in noise_error
    /\ NOISE = 0 => noise_error = {0}
    /\ Encoded =>
          \A i \in DOMAIN hist.state.ghostPositions :
             /\ msg.agent_positions[i][1] \in
                   (hist.state.ghostPositions[i][2] - NOISE) ..
                   (hist.state.ghostPositions[i][2] + NOISE)
             /\ msg.agent_positions[i][2] \in
                   (hist.state.ghostPositions[i][1] - NOISE) ..
                   (hist.state.ghostPositions[i][1] + NOISE)
             /\ NOISE = 0 =>
                   msg.agent_positions[i] = Reversed(hist.state.ghostPositions[i])

C5_Witness ==
    /\ Encoded
    /\ NOISE = MaxNoise
    /\ \E i \in DOMAIN hist.state.ghostPositions :
          /\ msg.agent_positions[i][1] = hist.state.ghostPositions[i][2] + NOISE
          /\ msg.agent_positions[i][2] = hist.state.ghostPositions[i][1] - NOISE

\* C6: in every StateMessage Pac-Man's position (index 0) is its true position
\* with the axes swapped, whatever the noise bound, and each ghost's position
\* differs from its true swapped position by at most NOISE on each axis.
C6_NoiseOnlyOnOpponents ==
    Encoded =>
        /\ msg.agent_positions[PACMAN_INDEX] = Reversed(hist.state.pacmanPosition)
        /\ \A i \in DOMAIN hist.state.ghostPositions :
              LET swapped == Reversed(hist.state.ghostPositions[i])
              IN  /\ Abs(msg.agent_positions[i][1] - swapped[1]) <= NOISE
                  /\ Abs(msg.agent_positions[i][2] - swapped[2]) <= NOISE

\* the two axes of one ghost perturbed differently, Pac-Man not at all
C6_Witness ==
    /\ Encoded
    /\ NOISE > 0
    /\ hist.state.pacmanPosition # <<0, 0>>
    /\ \E i \in DOMAIN hist.state.ghostPositions :
          LET swapped == Reversed(hist.state.ghostPositions[i])
          IN  /\ msg.agent_positions[i][1] - swapped[1] = NOISE
              /\ msg.agent_positions[i][2] - swapped[2] = 0

\* the (y, x) of the cells (x, y) at which the grid is true
SwappedCells(grid) ==
    {c \in {<<y, x>> : x \in XRange, y \in YRange} : grid[c[2]][c[1]]}

\* C7: with noise bound 0 every position of a StateMessage is the native
\* (x, y) swapped to (y, x): each agent's position, and food_positions and
\* wall_positions list exactly the (y, x) whose grid cell [x][y] is true,
\* each once.
C7_AxisSwap ==
    (Encoded /\ NOISE = 0) =>
        /\ msg.agent_positions[PACMAN_INDEX] =
               <<hist.state.pacmanPosition[2], hist.state.pacmanPosition[1]>>
        /\ \A i \in DOMAIN hist.state.ghostPositions :
              msg.agent_positions[i] =
                  <<hist.state.ghostPositions[i][2], hist.state.ghostPositions[i][1]>>
        /\ Range(msg.food_positions) = SwappedCells(hist.state.food)
        /\ Cardinality(Range(msg.food_positions)) = Len(msg.food_positions)
        /\ Range(msg.wall_positions) = SwappedCells(hist.state.walls)
        /\ Cardinality(Range(msg.wall_positions)) = Len(msg.wall_positions)

\* a ghost at native (Width - 1, 0), food at native (1, 0), walls everywhere
C7_Witness ==
    /\ Encoded
    /\ NOISE = 0
    /\ hist.state.ghostPositions[1] = <<Width - 1, Height - 1>>
    /\ msg.agent_positions[1] = <<Height - 1, Width - 1>>
    /\ <<0, 1>> \in Range(msg.food_positions)
    /\ <<1, 0>> \notin Range(msg.food_positions)
    /\ Len(msg.wall_positions) = Width * Height

\* C8: in every StateMessage the keys of fragile_agents are the keys of
\* agent_positions, 0 and 1..N, and the value of each is 1.0 when the agent's
\* scared timer is greater than 0 and 0.0 otherwise.
C8_FragileAgents ==
    Encoded =>
        /\ DOMAIN msg.fragile_agents = DOMAIN msg.agent_positions
        /\ DOMAIN msg.fragile_agents = 0 .. Len(hist.state.ghostPositions)
        /\ \A id \in DOMAIN msg.agent_positions :
              /\ hist.state.scaredTimers[id] > 0 => msg.fragile_agents[id] = 1
              /\ hist.state.scaredTimers[id] <= 0 => msg.fragile_agents[id] = 0

C8_Witness ==
    /\ Encoded
    /\ DOMAIN msg.agent_positions = {0, 1, 2}
    /\ msg.fragile_agents[0] = 0
    /\ msg.fragile_agents[1] = 1
    /\ msg.fragile_agents[2] = 0

Sends(kind) == {i \in DOMAIN client : client[i] = [ev |-> "send", kind |-> kind]}

\* C9: each start_game call sends exactly one GameStartMessage, no
\* StateMessage is sent before a GameStartMessage, and a getAction or update
\* before the first start_game sends nothing.
C9_HandshakeFirst ==
    /\ Cardinality(Sends("RequestGameStartMessage")) = hist.episodes
    /\ \A i \in Sends("StateMessage") :
          \E j \in Sends("RequestGameStartMessage") : j < i
    /\ hist.episodes = 0 => client = <<>>
    /\ (ret.op \in {"getAction", "update"} /\ hist.episodes = 0) =>
          (msg = NoMessage /\ ret.raised = "AttributeError")

C9_Witness ==
    /\ hist.episodes = 2
    /\ Cardinality(Sends("StateMessage")) = 2
    /\ msg.kind = "StateMessage"

\* C10: after start_game, for both roles and whatever earlier episodes left,
\* previous_score is 0 and previous_action is STOP; the first StateMessage of
\* every episode carries executed_action STOP and a reward computed against 0.
C10_EpisodeReset ==
    /\ ret.op = "start_game" =>
          /\ adapter.has_previous_score
          /\ adapter.previous_score = 0
          /\ adapter.previous_action = STOP
    /\ (Encoded /\ hist.nState = 1) =>
          /\ msg.executed_action = STOP
          /\ msg.reward = IF adapter.cls = PacmanAdapterAgent
                          THEN hist.state.score - 0 ELSE 0 - hist.state.score

C10_Witness ==
    /\ Encoded
    /\ adapter.cls = GhostAdapterAgent
    /\ hist.episodes = 2
    /\ hist.dirty
    /\ hist.nState = 1
    /\ msg.executed_action = STOP
    /\ msg.reward < 0

\* the step is a proxy call that put a StateMessage on the wire
SentState == client' # client /\ msg'.kind = "StateMessage"

\* the exchange communicate appends for the message msg'
Exchange == <<[ev |-> "send", kind |-> msg'.kind], [ev |-> "receive", kind |-> "reply"]>>

\* the sends and receives alternate, starting with a send, and none is
\* outstanding when a call has returned
Alternates ==
    /\ Len(client) % 2 = 0
    /\ \A i \in DOMAIN client :
          client[i].ev = IF i % 2 = 1 THEN "send" ELSE "receive"

\* C11 as stated: every call of start_game, getAction or update, whenever it
\* is made, performs exactly one send followed by exactly one receive, and
\* over any sequence of calls the sends and receives alternate.
C11_EveryCallExchanges ==
    /\ []Alternates
    /\ [][ret'.op \in {"start_game", "getAction", "update"} =>
              client' = client \o Exchange]_vars

\* C11: every start_game, and every getAction or update made after a
\* start_game, performs exactly one send followed by exactly one receive of
\* its reply before it returns or raises; a getAction or update made before
\* the first start_game raises having sent and received nothing; over any
\* sequence of calls the sends and receives alternate, starting with a send,
\* and no request is outstanding when a call is over.
C11_RequestResponse ==
    /\ []Alternates
    /\ [][ret'.op \in {"start_game", "getAction", "update"} =>
              IF ret'.op = "start_game" \/ adapter.has_previous_score
              THEN client' = client \o Exchange
              ELSE client' = client /\ ret'.raised = "AttributeError"]_vars

\* a hunter proxy whose last exchange ended in a raise, the reply received
C11_Witness ==
    /\ Len(client) = 2 * MaxCalls
    /\ adapter.cls = GhostAdapterAgent
    /\ ret = Outcome("getAction", "AttributeError", "None")
    /\ client[Len(client) - 1] = [ev |-> "send", kind |-> "StateMessage"]
    /\ client[Len(client)].ev = "receive"

\* C12: a StateMessage sent after a getAction of the episode has returned a
\* Direction carries that Direction, the one handed to the environment, as
\* its executed_action.
C12_ExecutedAction ==
    [][(SentState /\ hist.applied \in Directions) =>
           msg'.executed_action = hist.applied]_vars

\* C13: update sends one StateMessage, the one getAction builds for the same
\* state (same fields, same reward), receives one reply, advances
\* previous_score to the state's score and changes nothing else of the proxy:
\* not previous_action, not test_mode.
C13_UpdateObserveOnly ==
    [][(SentState /\ ret'.op \in {"update", "getAction"}) =>
           /\ msg' = create_state_message(adapter, hist'.state, hist'.draws)
           /\ client' = client \o Exchange
           /\ adapter'.previous_score = hist'.state.score
           /\ ret'.op = "update" =>
                  adapter' = [adapter EXCEPT !.previous_score = hist'.state.score]]_vars

\* two updates after a getAction whose reply NORTH was taken
C13_Witness ==
    /\ Encoded
    /\ ret.op = "update"
    /\ hist.nState = 3
    /\ hist.applied = NORTH
    /\ adapter.previous_action = NORTH
    /\ msg.executed_action = NORTH
    /\ msg.reward # 0

\* C14: the test_mode of every StateMessage is what the latest toggle asked
\* for (false when there was none); a toggle changes test_mode alone and sends
\* nothing; start_game keeps the flag; what getAction returns is fixed by the
\* role, the reply and the state's legal actions, not by the flag.
C14_ModeFlag ==
    /\ [](ActedOnReply =>
             ret = IF In(adapter.previous_action, hist.state.legal)
                   THEN Outcome("getAction", "none", adapter.previous_action)
                   ELSE act_when_invalid(adapter))
    /\ [][/\ SentState => msg'.test_mode = hist.flag
          /\ ret'.op \in {"enable_test_mode", "enable_learn_mode"} =>
                /\ adapter' = [adapter EXCEPT !.test_mode = (ret'.op = "enable_test_mode")]
                /\ client' = client
                /\ msg' = msg
          /\ ret'.op \in {"start_game", "getAction", "update"} =>
                adapter'.test_mode = adapter.test_mode]_vars

\* a second episode started in test mode, its first message carrying the flag
C14_Witness ==
    /\ Encoded
    /\ hist.episodes = 2
    /\ hist.flag
    /\ msg.test_mode
    /\ ret.op = "getAction"
    /\ ret.value = STOP
    /\ adapter.previous_action = EAST

\* the last controller call was a choose_action of a behavior-learning agent
LearningStep == out.op = "choose_action" /\ agent.cls \in LearningClasses

\* the step taken is such a choose_action
LearningStepTaken == out'.op = "choose_action" /\ agent'.steps # agent.steps

\* the two rates are the same number
SameRate(r, q) == r.num * q.den = q.num * r.den

\* C15: every choose_action of a behavior-learning agent sets the mode from
\* its test flag, whatever the mode was, before the Learning Core is called;
\* a learning step calls learn once and then act once, a test step calls
\* act once and learn not at all.
C15_ModeMachine ==
    LearningStep =>
        /\ agent.test_mode = out.test
        /\ \A i \in DOMAIN out.calls : out.calls[i].test_mode = out.test
        /\ [i \in DOMAIN out.calls |-> out.calls[i].fn] =
               IF out.test THEN <<"act">> ELSE <<"learn", "act">>

\* a learning step right after a test step
C15_Witness ==
    /\ LearningStep
    /\ out.before
    /\ ~out.test
    /\ Len(out.calls) = 2
    /\ out.calls[1].behavior # out.calls[2].behavior

\* C16: a choose_action whose test flag is true leaves the weight vector as
\* it was; the weight vector changes only in the learn call of a learning
\* step or by set_policy.
C16_NoWeightMutationInTest ==
    [][/\ (LearningStepTaken /\ out'.test) => agent'.weights = agent.weights
       /\ agent'.weights # agent.weights =>
             \/ out'.op = "set_policy"
             \/ /\ LearningStepTaken
                /\ ~out'.test
                /\ out'.calls[1].fn = "learn"
                /\ out'.calls[1].weights = agent.weights
                /\ out'.calls[2].weights = agent'.weights]_vars

\* a test step that found learnt weights and left them
C16_Witness ==
    /\ LearningStep
    /\ out.test
    /\ ~out.before
    /\ \E b \in DOMAIN agent.weights : agent.weights[b] = MaxWeight
    /\ \E b \in DOMAIN agent.weights : agent.weights[b] = 0
    /\ out.calls[1].weights = agent.weights

\* C17: when choose_action calls act, the Learning Core's exploration_rate
\* is 0 if the test flag is true and the configured 0.1 if it is false, after
\* test steps too.
C17_ExplorationFollowsMode ==
    LearningStep =>
        LET c == out.calls[Len(out.calls)]
        IN  /\ c.fn = "act"
            /\ out.test => c.exploration_rate.num = 0
            /\ ~out.test => SameRate(c.exploration_rate, Rate(1, 10))

\* a learning step after a test step that explores: its behavior is not the
\* greedy one
C17_Witness ==
    /\ LearningStep
    /\ out.before
    /\ ~out.test
    /\ agent.steps = MaxSteps
    /\ SameRate(agent.exploration_rate, ConfiguredExploration)
    /\ agent.previous_behavior # Greedy(agent.cls, agent.weights, out.feature)

\* C18: at every learn call the learning_rate is K / (K + iteration), K = 1,
\* for the iteration of the step's state, so learning_rate * (1 + iteration)
\* = 1; a test step leaves the learning_rate as it was.
C18_LearningRateSchedule ==
    /\ [](LearningStep =>
             \A i \in DOMAIN out.calls :
                out.calls[i].fn = "learn" =>
                   /\ SameRate(out.calls[i].learning_rate, Rate(K, K + out.iteration))
                   /\ out.calls[i].learning_rate.num * (1 + out.iteration) =
                          out.calls[i].learning_rate.den)
    /\ [][(LearningStepTaken /\ out'.test) =>
              agent'.learning_rate = agent.learning_rate]_vars

\* a first learn call at iteration 0: its rate is 1, not the constructor's 0.1
C18_Witness ==
    /\ LearningStep
    /\ agent.steps = 1
    /\ out.iteration = 0
    /\ out.calls[1].fn = "learn"
    /\ SameRate(out.calls[1].learning_rate, Rate(1, 1))
    /\ ~SameRate(out.calls[1].learning_rate, InitialLearningRate)

\* C21: constructing a proxy of any of the three classes with a client that
\* is no ZMQMessengerBase raises ValueError, sends nothing, then or later,
\* and leaves no proxy to call (the object has neither client nor
\* previous_action nor test_mode); with a valid client the constructor
\* returns a proxy with previous_action set (NORTH for the hunter, else STOP)
\* and test_mode false.
C21_ConfigurationError ==
    /\ (adapter # Unborn /\ hist.given \notin {"ZMQMessengerBase", "ZMQClient"}) =>
          /\ ret = Outcome("__init__", "ValueError", "None")
          /\ client = <<>>
          /\ msg = NoMessage
          /\ DOMAIN adapter = {"cls", "agent_id"}
    /\ (ret.op = "__init__" /\ hist.given \in {"ZMQMessengerBase", "ZMQClient"}) =>
          /\ ret.raised = "none"
          /\ client = <<>>
          /\ adapter.previous_action =
                 IF adapter.cls = GhostAdapterAgent THEN NORTH ELSE STOP
          /\ adapter.test_mode = FALSE

\* a hunter proxy refused for having been given a socket
C21_Witness ==
    /\ adapter # Unborn
    /\ adapter.cls = GhostAdapterAgent
    /\ hist.given = "Socket"
    /\ ret.raised = "ValueError"

C23_PreviousBehavior ==
    [][/\ LearningStepTaken =>
             LET last == out'.calls[Len(out'.calls)]
                 list == behaviors(agent.cls)
             IN  /\ last.fn = "act"
                 /\ agent'.previous_behavior = last.behavior
                 /\ In(agent'.previous_behavior, list)
                 /\ ~out'.test =>
                       /\ out'.calls[1].fn = "learn"
                       /\ out'.calls[1].behavior = agent.previous_behavior
                       /\ agent.steps = 0 => out'.calls[1].behavior = list[1]
                       /\ out.op = "choose_action" =>
                             out'.calls[1].behavior = out.calls[Len(out.calls)].behavior
       /\ out'.op \in {"get_policy", "set_policy"} =>
             agent'.previous_behavior = agent.previous_behavior]_vars

\* a learning step handed the behavior that the test step before it chose
\* greedily, not the first of the list
C23_Witness ==
    /\ LearningStep
    /\ out.before
    /\ ~out.test
    /\ agent.steps = 2
    /\ out.calls[1].fn = "learn"
    /\ out.calls[1].behavior = "Pursue"
    /\ agent.previous_behavior = "Seek"

\* C24: when the last action is not STOP and is legal, RandomPacmanAgentTwo
\* returns it if there are at most three legal actions; with four or five
\* every outcome is a legal action, exactly two of the draws give the last
\* action, exactly one gives each other legal action, and no draw reaches
\* the final random choice.
C24_KeepsDirection ==
    (/\ out.op = "choose_action"
     /\ agent.cls = RandomPacmanAgentTwo
     /\ out.suggested # STOP
     /\ In(out.suggested, out.legal)) =>
        LET draws == Draws(out.legal)
            Giving(a) == {n \in draws : Drawn(out.suggested, out.legal, n) = {a}}
        IN  /\ Len(out.legal) <= 3 => out.value = out.suggested
            /\ Len(out.legal) \in {4, 5} =>
                  /\ In(out.value, out.legal)
                  /\ Cardinality(draws) = Len(out.legal) + 1
                  /\ Cardinality(Giving(out.suggested)) = 2
                  /\ \A a \in Range(out.legal) \ {out.suggested} :
                        Cardinality(Giving(a)) = 1
                  /\ \A n \in draws \ {1, 2} :
                        n - 2 \in DOMAIN Remove(out.legal, out.suggested)

\* five legal actions, the last action WEST, the draw giving STOP
C24_Witness ==
    /\ out.op = "choose_action"
    /\ agent.cls = RandomPacmanAgentTwo
    /\ out.legal = PACMAN_ACTIONS
    /\ out.suggested = WEST
    /\ out.value = STOP

C26_StartupShutdown ==
    /\ [](sim.adapter # "none" => sim.controller \notin {"none", "built"})
    /\ [](sim.controller \in {"running", "killed"} => sim.daemon)
    /\ [](sim.pc = "end" => sim.adapter = "ended")
    /\ [](sim.process = "exited" => sim.pc = "end" /\ sim.adapter = "ended")
    /\ (sim.adapter = "ended" ~> sim.process = "exited")

\* the program has exited after an exchange of each proxy, ending a controller whose run
\* loop was still going
C26_Witness ==
    /\ sim.process = "exited"
    /\ sim.controller = "killed"
    /\ sim.exchanges[PACMAN_INDEX] = 1
    /\ sim.exchanges[PACMAN_INDEX + 1] = 1

\* C19: choose_action of every concrete controller agent returns, for every
\* input, the empty legal-action list and the list of STOP alone included,
\* exactly one Direction of NORTH, SOUTH, EAST, WEST, STOP, never no value.
C19_ReplyDomain ==
    out.op = "choose_action" => out.value \in Directions

====
